---- MODULE Spec2Model ----
(***************************************************************************)
(* A model of CalculatorLogic (src/calculator_logic.py): the angle mode,   *)
(* the history list, the sanitizer, the restricted eval() and the function *)
(* library.  Texts are strings, read character by character with SubSeq.   *)
(* Python objects are records tagged by field t; list objects live in a    *)
(* heap so that aliasing between the history list and the values stored in *)
(* it is visible.                                                          *)
(***************************************************************************)
EXTENDS Integers, Sequences, FiniteSets, TLC

VARIABLES angle_mode, heap, histId, snap, snapSeen, okLog, last

vars == <<angle_mode, heap, histId, snap, snapSeen, okLog, last>>

(***************************************************************************)
(* Bounds of the model.                                                    *)
(***************************************************************************)
MaxHistory == 2
MaxLists == 2

(***************************************************************************)
(* Text helpers: Python's str methods, by what they do.                    *)
(***************************************************************************)
CharAt(s, i) == SubSeq(s, i, i)

\* the element of a one-element set.  Only({e : x \in {v}}) is e with x standing for
\* v, which is computed once: a local variable of the code
Only(S) == CHOOSE x \in S : TRUE

Digits == "0123456789"
LowerLetters == "abcdefghijklmnopqrstuvwxyz"
UpperLetters == "ABCDEFGHIJKLMNOPQRSTUVWXYZ"

Has(set, c) == \E i \in 1..Len(set) : CharAt(set, i) = c

IsDigit(c) == Has(Digits, c)
IsLetter(c) == Has(LowerLetters, c) \/ Has(UpperLetters, c)
IsSpace(c) == c \in {" ", "\t", "\n"}

\* str.strip(): drop leading and trailing whitespace
RECURSIVE LStrip(_)
LStrip(s) ==
    IF Len(s) > 0 /\ IsSpace(CharAt(s, 1)) THEN LStrip(SubSeq(s, 2, Len(s))) ELSE s

RECURSIVE RStrip(_)
RStrip(s) ==
    IF Len(s) > 0 /\ IsSpace(CharAt(s, Len(s)))
    THEN RStrip(SubSeq(s, 1, Len(s) - 1)) ELSE s

Strip(s) == RStrip(LStrip(s))

\* str.upper() on the ASCII letters
UpperChar(c) ==
    IF Has(LowerLetters, c)
    THEN CharAt(UpperLetters, CHOOSE i \in 1..Len(LowerLetters) : CharAt(LowerLetters, i) = c)
    ELSE c

RECURSIVE Upper(_)
Upper(s) ==
    IF Len(s) = 0 THEN "" ELSE UpperChar(CharAt(s, 1)) \o Upper(SubSeq(s, 2, Len(s)))

\* str.replace(old, new): every non-overlapping occurrence, left to right
RECURSIVE Replace(_, _, _)
Replace(s, old, new) ==
    IF Len(s) < Len(old) THEN s
    ELSE IF SubSeq(s, 1, Len(old)) = old
         THEN new \o Replace(SubSeq(s, Len(old) + 1, Len(s)), old, new)
         ELSE CharAt(s, 1) \o Replace(SubSeq(s, 2, Len(s)), old, new)

(***************************************************************************)
(* _preprocess                                                             *)
(***************************************************************************)
INVALID_CHARS == "__INVALID_CHARS__"

\* the character class of the re.fullmatch pattern
AllowedChar(c) ==
    IsDigit(c) \/ IsLetter(c) \/ c \in {"_", "+", "-", "*", "/", "%", ".", "(", ")", ","}
    \/ IsSpace(c)

FullMatch(s) == \A i \in 1..Len(s) : AllowedChar(CharAt(s, i))

Normalize(expression) ==
    Replace(Replace(Replace(Strip(expression), "×", "*"), "÷", "/"), "^", "**")

preprocess(expression) ==
    LET expr == Normalize(expression)
    IN IF ~FullMatch(expr) THEN INVALID_CHARS ELSE expr

(***************************************************************************)
(* The tokens of the expression language eval() reads (Python's tokenizer  *)
(* on the characters the sanitizer lets through).  A token of kind         *)
(* "unmodelled" marks Python syntax this model does not cover (exponent,   *)
(* hexadecimal, complex and underscore number forms, the Ellipsis, and the *)
(* keywords other than None, True, False and not); no input of the model   *)
(* contains one.                                                           *)
(***************************************************************************)
IsNameStart(c) == IsLetter(c) \/ c = "_"
IsNameChar(c) == IsLetter(c) \/ IsDigit(c) \/ c = "_"

ModelledKeywords == {"None", "True", "False", "not"}

OtherKeywords ==
    {"and", "as", "assert", "async", "await", "break", "class", "continue", "def",
     "del", "elif", "else", "except", "finally", "for", "from", "global", "if",
     "import", "in", "is", "lambda", "nonlocal", "or", "pass", "raise", "return",
     "try", "while", "with", "yield"}

\* the first index >= i whose character is not a digit
RECURSIVE EndOfDigits(_, _)
EndOfDigits(s, i) ==
    IF i <= Len(s) /\ IsDigit(CharAt(s, i)) THEN EndOfDigits(s, i + 1) ELSE i

\* the first index >= i whose character cannot continue a name
RECURSIVE EndOfName(_, _)
EndOfName(s, i) ==
    IF i <= Len(s) /\ IsNameChar(CharAt(s, i)) THEN EndOfName(s, i + 1) ELSE i

\* the end (exclusive) of the number literal starting at i
EndOfNumber(s, i) ==
    LET j == EndOfDigits(s, i)
    IN IF j <= Len(s) /\ CharAt(s, j) = "." THEN EndOfDigits(s, j + 1) ELSE j

AllZeros(t) == \A i \in 1..Len(t) : CharAt(t, i) = "0"
HasDot(t) == \E i \in 1..Len(t) : CharAt(t, i) = "."

NumberToken(s, i, j) ==
    LET t == SubSeq(s, i, j - 1)
    IN IF j <= Len(s) /\ IsNameStart(CharAt(s, j)) THEN [k |-> "unmodelled", s |-> t]
       ELSE IF ~HasDot(t) /\ Len(t) > 1 /\ CharAt(t, 1) = "0" /\ ~AllZeros(t)
            THEN [k |-> "bad", s |-> t]      \* leading zeros in a decimal integer
            ELSE [k |-> "num", s |-> t]

NameToken(t) ==
    IF t \in ModelledKeywords THEN [k |-> "kw", s |-> t]
    ELSE IF t \in OtherKeywords THEN [k |-> "unmodelled", s |-> t]
    ELSE [k |-> "name", s |-> t]

RECURSIVE Tokenize(_, _, _)
Tokenize(s, i, depth) ==
    IF i > Len(s) THEN <<>>
    ELSE LET c == CharAt(s, i)
             c2 == IF i < Len(s) THEN CharAt(s, i + 1) ELSE ""
         IN IF c \in {" ", "\t"} THEN Tokenize(s, i + 1, depth)
            ELSE IF c = "\n"
                 THEN IF depth > 0 THEN Tokenize(s, i + 1, depth)
                      ELSE <<[k |-> "newline", s |-> c]>> \o Tokenize(s, i + 1, depth)
            ELSE IF IsDigit(c) \/ (c = "." /\ IsDigit(c2))
                 THEN LET j == EndOfNumber(s, i)
                      IN <<NumberToken(s, i, j)>> \o Tokenize(s, j, depth)
            ELSE IF IsNameStart(c)
                 THEN LET j == EndOfName(s, i)
                      IN <<NameToken(SubSeq(s, i, j - 1))>> \o Tokenize(s, j, depth)
            ELSE IF i + 2 <= Len(s) /\ SubSeq(s, i, i + 2) = "..."
                 THEN <<[k |-> "unmodelled", s |-> "..."]>> \o Tokenize(s, i + 3, depth)
            ELSE IF (c = "*" /\ c2 = "*") \/ (c = "/" /\ c2 = "/")
                 THEN <<[k |-> "op", s |-> c \o c2]>> \o Tokenize(s, i + 2, depth)
            ELSE IF c = "("
                 THEN <<[k |-> "op", s |-> c]>> \o Tokenize(s, i + 1, depth + 1)
            ELSE IF c = ")"
                 THEN <<[k |-> "op", s |-> c]>>
                          \o Tokenize(s, i + 1, IF depth > 0 THEN depth - 1 ELSE 0)
            ELSE <<[k |-> "op", s |-> c]>> \o Tokenize(s, i + 1, depth)

(***************************************************************************)
(* The parser of eval(): Python's expression grammar over those tokens.    *)
(*   testlist: test (',' test)* [',']       a comma makes a tuple          *)
(*   test:     'not' test | arith                                          *)
(*   arith:    term (('+'|'-') term)*                                      *)
(*   term:     factor (('*'|'/'|'%'|'//') factor)*                         *)
(*   factor:   ('+'|'-') factor | power                                    *)
(*   power:    primary ['**' factor]                                       *)
(*   primary:  atom ('(' [arglist] ')' | '.' NAME)*                        *)
(*   atom:     NUMBER | NAME | None | True | False | '(' [testlist] ')'    *)
(* A parse result is [ok, node, p]: the node and the next token's index.   *)
(***************************************************************************)
Tk(ts, p) == IF p <= Len(ts) THEN ts[p] ELSE [k |-> "eof", s |-> ""]
IsOp(ts, p, o) == Tk(ts, p).k = "op" /\ Tk(ts, p).s = o
IsOpIn(ts, p, os) == Tk(ts, p).k = "op" /\ Tk(ts, p).s \in os

POk(node, p) == [ok |-> TRUE, node |-> node, p |-> p]
PErr == [ok |-> FALSE, node |-> [k |-> "none"], p |-> 0]

RECURSIVE ParseTestlist(_, _)
RECURSIVE ParseTupleRest(_, _, _)
RECURSIVE ParseTest(_, _)
RECURSIVE ParseArith(_, _)
RECURSIVE ParseArithRest(_, _, _)
RECURSIVE ParseTerm(_, _)
RECURSIVE ParseTermRest(_, _, _)
RECURSIVE ParseFactor(_, _)
RECURSIVE ParsePower(_, _)
RECURSIVE ParseTrailers(_, _, _)
RECURSIVE ParseArgs(_, _, _)
RECURSIVE ParseAtom(_, _)

ParseAtom(ts, p) ==
    LET t == Tk(ts, p)
    IN IF t.k = "num" THEN POk([k |-> "num", s |-> t.s], p + 1)
       ELSE IF t.k = "name" THEN POk([k |-> "name", id |-> t.s], p + 1)
       ELSE IF t.k = "kw" /\ t.s # "not" THEN POk([k |-> "const", id |-> t.s], p + 1)
       ELSE IF IsOp(ts, p, "(")
            THEN IF IsOp(ts, p + 1, ")")
                 THEN POk([k |-> "tuple", items |-> <<>>], p + 2)
                 ELSE Only({IF r.ok /\ IsOp(ts, r.p, ")") THEN POk(r.node, r.p + 1) ELSE PErr :
                            r \in {ParseTestlist(ts, p + 1)}})
       ELSE PErr

\* the arguments of a call, from the token after '(' or after a ','
ParseArgs(ts, p, acc) ==
    IF IsOp(ts, p, ")") THEN POk([k |-> "args", items |-> acc], p + 1)
    ELSE Only({IF ~r.ok THEN PErr
               ELSE IF IsOp(ts, r.p, ",") THEN ParseArgs(ts, r.p + 1, Append(acc, r.node))
               ELSE IF IsOp(ts, r.p, ")")
                    THEN POk([k |-> "args", items |-> Append(acc, r.node)], r.p + 1)
               ELSE PErr :
               r \in {ParseTest(ts, p)}})

ParseTrailers(ts, p, node) ==
    IF IsOp(ts, p, "(")
    THEN Only({IF r.ok
               THEN ParseTrailers(ts, r.p, [k |-> "call", f |-> node, args |-> r.node.items])
               ELSE PErr :
               r \in {ParseArgs(ts, p + 1, <<>>)}})
    ELSE IF IsOp(ts, p, ".")
         THEN IF Tk(ts, p + 1).k = "name"
              THEN ParseTrailers(ts, p + 2,
                                 [k |-> "attr", e |-> node, name |-> Tk(ts, p + 1).s])
              ELSE PErr
    ELSE POk(node, p)

\* atom trailers, then the right-associative '**'
ParsePower(ts, p) ==
    Only({IF ~b.ok THEN PErr
          ELSE IF IsOp(ts, b.p, "**")
               THEN Only({IF r.ok
                          THEN POk([k |-> "bin", op |-> "**", l |-> b.node, r |-> r.node], r.p)
                          ELSE PErr :
                          r \in {ParseFactor(ts, b.p + 1)}})
               ELSE b :
          b \in {Only({IF a.ok THEN ParseTrailers(ts, a.p, a.node) ELSE PErr :
                       a \in {ParseAtom(ts, p)}})}})

ParseFactor(ts, p) ==
    IF IsOpIn(ts, p, {"+", "-"})
    THEN Only({IF r.ok THEN POk([k |-> "un", op |-> Tk(ts, p).s, e |-> r.node], r.p) ELSE PErr :
               r \in {ParseFactor(ts, p + 1)}})
    ELSE ParsePower(ts, p)

ParseTermRest(ts, p, left) ==
    IF IsOpIn(ts, p, {"*", "/", "%", "//"})
    THEN Only({IF r.ok
               THEN ParseTermRest(ts, r.p,
                                  [k |-> "bin", op |-> Tk(ts, p).s, l |-> left, r |-> r.node])
               ELSE PErr :
               r \in {ParseFactor(ts, p + 1)}})
    ELSE POk(left, p)

ParseTerm(ts, p) ==
    Only({IF r.ok THEN ParseTermRest(ts, r.p, r.node) ELSE PErr : r \in {ParseFactor(ts, p)}})

ParseArithRest(ts, p, left) ==
    IF IsOpIn(ts, p, {"+", "-"})
    THEN Only({IF r.ok
               THEN ParseArithRest(ts, r.p,
                                   [k |-> "bin", op |-> Tk(ts, p).s, l |-> left, r |-> r.node])
               ELSE PErr :
               r \in {ParseTerm(ts, p + 1)}})
    ELSE POk(left, p)

ParseArith(ts, p) ==
    Only({IF r.ok THEN ParseArithRest(ts, r.p, r.node) ELSE PErr : r \in {ParseTerm(ts, p)}})

ParseTest(ts, p) ==
    IF Tk(ts, p).k = "kw" /\ Tk(ts, p).s = "not"
    THEN Only({IF r.ok THEN POk([k |-> "not", e |-> r.node], r.p) ELSE PErr :
               r \in {ParseTest(ts, p + 1)}})
    ELSE ParseArith(ts, p)

\* after a ',' of a testlist: more items, or the trailing comma
ParseTupleRest(ts, p, acc) ==
    Only({IF ~r.ok THEN POk([k |-> "tuple", items |-> acc], p)
          ELSE IF IsOp(ts, r.p, ",") THEN ParseTupleRest(ts, r.p + 1, Append(acc, r.node))
          ELSE POk([k |-> "tuple", items |-> Append(acc, r.node)], r.p) :
          r \in {ParseTest(ts, p)}})

ParseTestlist(ts, p) ==
    Only({IF ~r.ok THEN PErr
          ELSE IF IsOp(ts, r.p, ",") THEN ParseTupleRest(ts, r.p + 1, <<r.node>>)
          ELSE r :
          r \in {ParseTest(ts, p)}})

\* a '*' or '**' where an item starts is Python's unpacking, which is not modelled
Starred(ts) ==
    \E p \in 1..Len(ts) :
        /\ IsOpIn(ts, p, {"*", "**"})
        /\ (p = 1 \/ IsOpIn(ts, p - 1, {"(", ","}))

\* compile(expr, mode "eval"): the tree, or "SyntaxError"
Parse(expr) ==
    Only({IF (\E p \in 1..Len(ts) : ts[p].k = "unmodelled") \/ Starred(ts)
          THEN [ok |-> FALSE, err |-> "Unmodelled"]
          ELSE IF \E p \in 1..Len(ts) : ts[p].k \in {"bad", "newline"}
               THEN [ok |-> FALSE, err |-> "SyntaxError"]
               ELSE Only({IF r.ok /\ r.p = Len(ts) + 1
                          THEN [ok |-> TRUE, node |-> r.node]
                          ELSE [ok |-> FALSE, err |-> "SyntaxError"] :
                          r \in {ParseTestlist(ts, 1)}}) :
          ts \in {Tokenize(expr, 1, 0)}})

(***************************************************************************)
(* Python values, as records tagged by t.                                  *)
(*   int      exact, field v.                                              *)
(*   int10    the int 10**exp, beyond the 32-bit integers of TLC.          *)
(*   float    the rational n/d (d > 0, lowest terms) the double stands     *)
(*            for; x says whether the double equals n/d exactly.  When x   *)
(*            is FALSE the double is within rounding error of n/d, which   *)
(*            decides its 12-digit rendering and its sign but not whether  *)
(*            it is a whole number when d = 1.                             *)
(*   floatsym an irrational result of the math library, named by sym.      *)
(* An operation outside what this model covers answers                     *)
(* Raise(st, "Unmodelled", ..); evaluate has no case for it, so no input   *)
(* of the model may reach one.                                             *)
(***************************************************************************)
IntV(n) == [t |-> "int", v |-> n]
BoolV(b) == [t |-> "bool", b |-> b]
NoneV == [t |-> "none"]
StrV(s) == [t |-> "str", s |-> s]
TupleV(items) == [t |-> "tuple", items |-> items]
SymV(sym) == [t |-> "floatsym", sym |-> sym]
MethodV(name) == [t |-> "method", name |-> name]
BuiltinV(name) == [t |-> "builtin", name |-> name]
ModuleV(name) == [t |-> "module", name |-> name]
InstanceV == [t |-> "instance"]
ListV(id) == [t |-> "list", id |-> id]
ListMethodV(id, name) == [t |-> "listmethod", id |-> id, name |-> name]
QuitterV == [t |-> "quitter"]

Ok(st, v) == [ok |-> TRUE, st |-> st, v |-> v]
Raise(st, exc, msg) == [ok |-> FALSE, st |-> st, exc |-> exc, msg |-> msg]

Abs(n) == IF n < 0 THEN -n ELSE n

RECURSIVE Gcd(_, _)
Gcd(a, b) == IF b = 0 THEN a ELSE Gcd(b, a % b)

RECURSIVE IsPow2(_)
IsPow2(d) == d = 1 \/ (d % 2 = 0 /\ IsPow2(d \div 2))

\* the float n/d in lowest terms; exact only if a double can hold n/d
FloatV(n, d, x) ==
    LET s == IF d < 0 THEN -1 ELSE 1
        g == Gcd(Abs(n), Abs(d))
    IN [t |-> "float", n |-> (s * n) \div g, d |-> (s * d) \div g,
        x |-> x /\ IsPow2((s * d) \div g)]

\* a float result: a double within rounding error of zero has no known rendering
MkFloat(st, n, d, x) ==
    IF n = 0 /\ ~x THEN Raise(st, "Unmodelled", "inexact zero") ELSE Ok(st, FloatV(n, d, x))

\* floor(a / b) for b # 0
FloorDiv(a, b) == IF b > 0 THEN a \div b ELSE (-a) \div (-b)

RECURSIVE IntPow(_, _)
IntPow(a, b) == IF b = 0 THEN 1 ELSE a * IntPow(a, b - 1)

IsNum(v) == v.t \in {"int", "float", "bool"}
IsExact(v) == v.t \in {"int", "bool"}
Inexact(v) == v.t = "float" /\ ~v.x

NumOf(v) ==
    CASE v.t = "int" -> v.v
      [] v.t = "bool" -> IF v.b THEN 1 ELSE 0
      [] v.t = "float" -> v.n
DenOf(v) == IF v.t = "float" THEN v.d ELSE 1

\* the k-th root of a >= 0 when it is an integer, else -1
RECURSIVE IntRootFrom(_, _, _)
IntRootFrom(a, k, r) ==
    IF IntPow(r, k) = a THEN r
    ELSE IF IntPow(r, k) > a THEN -1
    ELSE IntRootFrom(a, k, r + 1)

IntRoot(a, k) == IntRootFrom(a, k, 0)

\* float ** float: an integral exponent, or an exact root of a non-negative base
FloatPow(st, xn, xd, yn, yd, x) ==
    IF yd = 1 /\ x
    THEN IF yn >= 0 THEN MkFloat(st, IntPow(xn, yn), IntPow(xd, yn), x)
         ELSE IF xn = 0
              THEN Raise(st, "ZeroDivisionError", "0.0 cannot be raised to a negative power")
              ELSE MkFloat(st, IntPow(xd, -yn), IntPow(xn, -yn), x)
    ELSE IF xn < 0 \/ yd = 1 THEN Raise(st, "Unmodelled", "complex or inexact power")
    ELSE IF yn = 1 /\ IntRoot(xn, yd) >= 0 /\ IntRoot(xd, yd) >= 0
         THEN MkFloat(st, IntRoot(xn, yd), IntRoot(xd, yd), FALSE)
    ELSE Raise(st, "Unmodelled", "irrational power")

\* int ** int; 10**b for b > 9 is kept as a power of ten
IntIntPow(st, a, b) ==
    IF b < 0
    THEN IF a = 0
         THEN Raise(st, "ZeroDivisionError", "0.0 cannot be raised to a negative power")
         ELSE MkFloat(st, 1, IntPow(a, -b), TRUE)
    ELSE IF a = 10 /\ b > 9 THEN Ok(st, [t |-> "int10", exp |-> b])
    ELSE Ok(st, IntV(IntPow(a, b)))

\* the binary operators of the expression language on two values
BinOp(st, op, a, b) ==
    IF IsNum(a) /\ IsNum(b)
    THEN LET an == NumOf(a)  ad == DenOf(a)
             bn == NumOf(b)  bd == DenOf(b)
             ints == IsExact(a) /\ IsExact(b)
             x == ~Inexact(a) /\ ~Inexact(b)
             Res(n, d) == IF ints THEN Ok(st, IntV(n)) ELSE MkFloat(st, n, d, x)
             Zero == Raise(st, "ZeroDivisionError", "division by zero")
         IN CASE op = "+" ->
                   IF ~x /\ an * bn < 0 THEN Raise(st, "Unmodelled", "cancellation")
                   ELSE Res(an * bd + bn * ad, ad * bd)
              [] op = "-" ->
                   IF ~x /\ an * bn > 0 THEN Raise(st, "Unmodelled", "cancellation")
                   ELSE Res(an * bd - bn * ad, ad * bd)
              [] op = "*" -> Res(an * bn, ad * bd)
              [] op = "/" -> IF bn = 0 THEN Zero ELSE MkFloat(st, an * bd, ad * bn, x)
              [] op = "//" ->
                   IF bn = 0 THEN Zero
                   ELSE IF ~x THEN Raise(st, "Unmodelled", "floor of an inexact quotient")
                   ELSE Res(FloorDiv(an * bd, ad * bn), 1)
              [] op = "%" ->
                   IF bn = 0 THEN Zero
                   ELSE IF ~x THEN Raise(st, "Unmodelled", "floor of an inexact quotient")
                   ELSE Res(an * bd - FloorDiv(an * bd, ad * bn) * bn * ad, ad * bd)
              [] op = "**" -> IF ints THEN IntIntPow(st, an, bn)
                              ELSE FloatPow(st, an, ad, bn, bd, x)
    ELSE IF {a.t, b.t} \cap {"tuple", "str", "list", "floatsym", "int10"} # {}
         THEN Raise(st, "Unmodelled", "operator on a sequence, symbolic or big operand")
    ELSE Raise(st, "TypeError", "unsupported operand type(s)")

\* unary + and -
UnOp(st, op, a) ==
    IF IsNum(a)
    THEN LET s == IF op = "-" THEN -1 ELSE 1
         IN Ok(st, IF IsExact(a) THEN IntV(s * NumOf(a)) ELSE FloatV(s * a.n, a.d, a.x))
    ELSE IF a.t \in {"floatsym", "int10"}
         THEN Raise(st, "Unmodelled", "sign of a symbolic or big operand")
    ELSE Raise(st, "TypeError", "bad operand type for unary operator")

\* bool(v), for 'not'
Truth(st, v) ==
    CASE IsNum(v) -> NumOf(v) # 0
      [] v.t = "none" -> FALSE
      [] v.t = "tuple" -> Len(v.items) > 0
      [] v.t = "str" -> Len(v.s) > 0
      [] v.t = "list" -> Len(st.heap[v.id]) > 0
      [] OTHER -> TRUE

(***************************************************************************)
(* str(), repr() and the "%.12g" format, as strings.                       *)
(***************************************************************************)
RECURSIVE NatToStr(_)
NatToStr(n) ==
    IF n < 10 THEN CharAt(Digits, n + 1)
    ELSE NatToStr(n \div 10) \o CharAt(Digits, (n % 10) + 1)

IntToStr(n) == IF n < 0 THEN "-" \o NatToStr(-n) ELSE NatToStr(n)

RECURSIVE Zeros(_)
Zeros(k) == IF k <= 0 THEN "" ELSE "0" \o Zeros(k - 1)

RECURSIVE DigitsToStr(_)
DigitsToStr(ds) ==
    IF Len(ds) = 0 THEN "" ELSE CharAt(Digits, ds[1] + 1) \o DigitsToStr(Tail(ds))

\* the decimal exponent of a/d: floor(log10(a/d)), for a, d > 0
RECURSIVE ExpUp(_, _)
ExpUp(a, d) == IF a \div 10 >= d THEN 1 + ExpUp(a \div 10, d) ELSE 0

RECURSIVE ExpDown(_, _)
ExpDown(a, d) == IF a >= d THEN 0 ELSE 1 + ExpDown(a * 10, d)

DecExp(a, d) == IF a >= d THEN ExpUp(a, d) ELSE -ExpDown(a, d)

\* the first k digits of num/den (1 <= num/den < 10) and the remainder left
RECURSIVE LongDiv(_, _, _)
LongDiv(num, den, k) ==
    LET q == num \div den
        r == num % den
    IN IF k = 1 THEN [ds |-> <<q>>, rem |-> r]
       ELSE LET rest == LongDiv(r * 10, den, k - 1)
            IN [ds |-> <<q>> \o rest.ds, rem |-> rest.rem]

\* add one to the ld digit, with carry; all nines become 1 followed by zeros
RECURSIVE IncDigits(_)
IncDigits(ds) ==
    IF Len(ds) = 0 THEN [ds |-> <<>>, carry |-> TRUE]
    ELSE LET ld == ds[Len(ds)]
             front == SubSeq(ds, 1, Len(ds) - 1)
         IN IF ld < 9 THEN [ds |-> Append(front, ld + 1), carry |-> FALSE]
            ELSE LET r == IncDigits(front)
                 IN [ds |-> Append(r.ds, 0), carry |-> r.carry]

RECURSIVE StripZeros(_)
StripZeros(ds) ==
    IF Len(ds) > 1 /\ ds[Len(ds)] = 0 THEN StripZeros(SubSeq(ds, 1, Len(ds) - 1)) ELSE ds

\* the significant digits of the "%.<SigDigits>g" format
SigDigits == 12

\* f"{x:.12g}" for the float n/d # 0
G12(n, d) ==
    LET a == Abs(n)
        e0 == DecExp(a, d)
        num == IF e0 >= 0 THEN a ELSE a * IntPow(10, -e0)
        den == IF e0 >= 0 THEN d * IntPow(10, e0) ELSE d
        q == LongDiv(num, den, SigDigits)
        up == 2 * q.rem > den \/ (2 * q.rem = den /\ q.ds[SigDigits] % 2 = 1)
        inc == IncDigits(q.ds)
        ds0 == IF ~up THEN q.ds
               ELSE IF inc.carry THEN <<1>> \o SubSeq(inc.ds, 1, SigDigits - 1)
               ELSE inc.ds
        e == IF up /\ inc.carry THEN e0 + 1 ELSE e0
        ds == StripZeros(ds0)
        sign == IF n < 0 THEN "-" ELSE ""
        ae == Abs(e)
    IN IF e < -4 \/ e >= SigDigits
       THEN sign \o DigitsToStr(<<ds[1]>>)
                 \o (IF Len(ds) > 1 THEN "." \o DigitsToStr(Tail(ds)) ELSE "")
                 \o "e" \o (IF e < 0 THEN "-" ELSE "+")
                 \o (IF ae < 10 THEN "0" ELSE "") \o NatToStr(ae)
       ELSE IF e >= 0
            THEN IF Len(ds) <= e + 1
                 THEN sign \o DigitsToStr(ds) \o Zeros(e + 1 - Len(ds))
                 ELSE sign \o DigitsToStr(SubSeq(ds, 1, e + 1)) \o "."
                           \o DigitsToStr(SubSeq(ds, e + 2, Len(ds)))
            ELSE sign \o "0." \o Zeros(-e - 1) \o DigitsToStr(ds)

\* the 12-digit rendering of the irrational doubles the model names
SymDisplay(sym) ==
    CASE sym = "pi" -> "3.14159265359"
      [] sym = "e" -> "2.71828182846"
      [] sym = "sin(30 rad)" -> "-0.988031624093"
      [] sym = "cos(60 rad)" -> "-0.952412980415"
      [] sym = "tan(90 rad)" -> "-1.99520041221"
      [] sym = "tan(45 rad)" -> "1.61977519054"
      [] sym = "exp(2)" -> "7.38905609893"

\* the digit limit of str(int), sys.int_info.default_max_str_digits
IntMaxStrDigits == 4300

FOk(s) == [ok |-> TRUE, s |-> s]
FRaise(exc, msg) == [ok |-> FALSE, exc |-> exc, msg |-> msg]

DigitLimitMsg ==
    "Exceeds the limit (4300 digits) for integer string conversion; "
    \o "use sys.set_int_max_str_digits() to increase the limit"

ObjectAt == "<calculator_logic.CalculatorLogic object at 0x...>"

\* repr(s) of a str without quotes, backslashes or control characters
ReprStr(s) ==
    IF \E i \in 1..Len(s) : CharAt(s, i) \in {"'", "\\", "\n", "\t"}
    THEN FRaise("Unmodelled", "repr of a string with escapes")
    ELSE FOk("'" \o s \o "'")

\* repr(v); seen is the set of list ids being rendered (a list inside itself is [...])
RECURSIVE Repr(_, _, _)
RECURSIVE ReprItems(_, _, _)

ReprItems(hp, items, seen) ==
    IF Len(items) = 0 THEN FOk("")
    ELSE LET hd == Repr(hp, items[1], seen)
         IN IF ~hd.ok THEN hd
            ELSE IF Len(items) = 1 THEN hd
            ELSE LET r == ReprItems(hp, Tail(items), seen)
                 IN IF ~r.ok THEN r ELSE FOk(hd.s \o ", " \o r.s)

Repr(hp, v, seen) ==
    CASE v.t = "int" -> FOk(IntToStr(v.v))
      [] v.t = "int10" ->
           IF v.exp + 1 > IntMaxStrDigits THEN FRaise("ValueError", DigitLimitMsg)
           ELSE FOk("1" \o Zeros(v.exp))
      [] v.t = "float" ->
           IF v.d = 1 /\ v.x THEN FOk(IntToStr(v.n) \o ".0")
           ELSE FRaise("Unmodelled", "repr of a fractional float")
      [] v.t = "floatsym" -> FRaise("Unmodelled", "repr of an irrational float")
      [] v.t = "bool" -> FOk(IF v.b THEN "True" ELSE "False")
      [] v.t = "none" -> FOk("None")
      [] v.t = "str" -> ReprStr(v.s)
      [] v.t = "tuple" ->
           LET r == ReprItems(hp, v.items, seen)
           IN IF ~r.ok THEN r
              ELSE IF \E i \in 1..Len(v.items) : v.items[i].t = "list"
                   THEN FRaise("Unmodelled", "repr of a tuple that may hold itself")
              ELSE FOk("(" \o r.s \o (IF Len(v.items) = 1 THEN "," ELSE "") \o ")")
      [] v.t = "entry" ->
           \* a history entry, the tuple (expression, result)
           LET r == ReprItems(hp, <<StrV(v.expr), v.result>>, seen)
           IN IF ~r.ok THEN r ELSE FOk("(" \o r.s \o ")")
      [] v.t = "list" ->
           IF v.id \in seen THEN FOk("[...]")
           ELSE LET r == ReprItems(hp,
                                   [i \in 1..Len(hp[v.id]) |->
                                       [t |-> "entry", expr |-> hp[v.id][i].expr,
                                        result |-> hp[v.id][i].result]],
                                   seen \cup {v.id})
                IN IF ~r.ok THEN r ELSE FOk("[" \o r.s \o "]")
      [] v.t = "method" ->
           FOk("<bound method CalculatorLogic." \o v.name \o " of " \o ObjectAt \o ">")
      [] v.t = "listmethod" ->
           FOk("<built-in method " \o v.name \o " of list object at 0x...>")
      [] v.t = "builtin" -> FOk("<built-in function " \o v.name \o ">")
      [] v.t = "quitter" -> FOk("Use exit() or Ctrl-D (i.e. EOF) to exit")
      [] v.t = "module" -> FOk("<module '" \o v.name \o "' (built-in)>")
      [] v.t = "instance" -> FOk(ObjectAt)

\* str(v): a str is itself, everything else its repr
Str(hp, v) == IF v.t = "str" THEN FOk(v.s) ELSE Repr(hp, v, {})

(***************************************************************************)
(* _format_result                                                          *)
(***************************************************************************)
format_result(hp, result) ==
    IF result.t = "float"
    THEN IF result.d = 1 THEN FOk(IntToStr(result.n))     \* is_integer(): str(int(result))
         ELSE FOk(G12(result.n, result.d))
    ELSE IF result.t = "floatsym" THEN FOk(SymDisplay(result.sym))
    ELSE Str(hp, result)

(***************************************************************************)
(* The evaluation state eval() works on: st.mode is self.angle_mode,       *)
(* st.heap the list objects by identity, st.histId the identity of the     *)
(* list self.history names, st.host the host-level calls executed.         *)
(***************************************************************************)
DEG == "DEG"
RAD == "RAD"

DomainError(st) == Raise(st, "ValueError", "Domain Error")
WrongArity(st) == Raise(st, "TypeError", "wrong number of arguments")

\* float(v)
ToFloat(st, v) ==
    CASE v.t = "int" -> Ok(st, FloatV(v.v, 1, TRUE))
      [] v.t = "bool" -> Ok(st, FloatV(IF v.b THEN 1 ELSE 0, 1, TRUE))
      [] v.t \in {"float", "floatsym"} -> Ok(st, v)
      [] v.t = "int10" ->
           IF v.exp <= 308 THEN Raise(st, "Unmodelled", "a float beyond the exact range")
           ELSE Raise(st, "OverflowError", "int too large to convert to float")
      [] v.t = "str" -> Raise(st, "Unmodelled", "float of a string")
      [] OTHER -> Raise(st, "TypeError", "float() argument must be a string or a real number")

Trunc(n, d) == IF n >= 0 THEN n \div d ELSE -((-n) \div d)

\* int(v): truncation toward zero
ToInt(st, v) ==
    CASE v.t = "int" -> Ok(st, v)
      [] v.t = "bool" -> Ok(st, IntV(IF v.b THEN 1 ELSE 0))
      [] v.t = "float" ->
           IF v.d = 1 /\ ~v.x THEN Raise(st, "Unmodelled", "int of an inexact whole float")
           ELSE Ok(st, IntV(Trunc(v.n, v.d)))
      [] v.t = "floatsym" ->
           IF v.sym = "pi" THEN Ok(st, IntV(3))
           ELSE IF v.sym = "e" THEN Ok(st, IntV(2))
           ELSE Raise(st, "Unmodelled", "int of an irrational float")
      [] v.t = "int10" -> Ok(st, v)
      [] v.t = "str" -> Raise(st, "Unmodelled", "int of a string")
      [] OTHER -> Raise(st, "TypeError", "int() argument must be a string or a real number")

\* the sign of a float value: -1, 0 or 1
SignOf(x) ==
    IF x.t = "floatsym" THEN (IF CharAt(SymDisplay(x.sym), 1) = "-" THEN -1 ELSE 1)
    ELSE IF x.n < 0 THEN -1 ELSE IF x.n = 0 THEN 0 ELSE 1

\* float.is_integer(), as "yes", "no" or "unknown"
IsInteger(x) ==
    IF x.t = "floatsym" THEN "no"
    ELSE IF x.d # 1 THEN "no"
    ELSE IF x.x THEN "yes" ELSE "unknown"

RECURSIVE Factorial(_)
Factorial(n) == IF n = 0 THEN 1 ELSE n * Factorial(n - 1)

\* the k with b^k = a for integers b >= 2, a >= 1, else -1
RECURSIVE IntLogFrom(_, _, _, _)
IntLogFrom(a, b, k, p) ==
    IF p = a THEN k
    ELSE IF p > a \div b THEN -1
    ELSE IntLogFrom(a, b, k + 1, p * b)

IntLog(a, b) == IntLogFrom(a, b, 0, 1)

(***************************************************************************)
(* The function library of CalculatorLogic.  Each takes the evaluation     *)
(* state (for self.angle_mode) and the argument values.                    *)
(***************************************************************************)
\* the doubles math.sin/cos/tan return at the angles the model covers
TrigValue(st, f, a, deg) ==
    IF ~(a.t = "float" /\ a.x /\ a.d = 1) THEN Raise(st, "Unmodelled", "angle")
    ELSE IF a.n = 0 THEN Ok(st, FloatV(IF f = "cos" THEN 1 ELSE 0, 1, TRUE))
    ELSE IF deg
         THEN CASE f = "sin" /\ a.n = 30 -> Ok(st, FloatV(1, 2, FALSE))
                [] f = "sin" /\ a.n = 90 -> Ok(st, FloatV(1, 1, TRUE))
                [] f = "cos" /\ a.n = 60 -> Ok(st, FloatV(1, 2, FALSE))
                [] f = "tan" /\ a.n = 45 -> Ok(st, FloatV(1, 1, FALSE))
                [] OTHER -> Raise(st, "Unmodelled", "angle")
         ELSE CASE f = "sin" /\ a.n = 30 -> Ok(st, SymV("sin(30 rad)"))
                [] f = "cos" /\ a.n = 60 -> Ok(st, SymV("cos(60 rad)"))
                [] f = "tan" /\ a.n = 45 -> Ok(st, SymV("tan(45 rad)"))
                [] f = "tan" /\ a.n = 90 -> Ok(st, SymV("tan(90 rad)"))
                [] OTHER -> Raise(st, "Unmodelled", "angle")

\* _to_radians happens inside TrigValue: degrees only when angle_mode == "DEG"
sin(st, x) ==
    LET a == ToFloat(st, x) IN IF ~a.ok THEN a ELSE TrigValue(st, "sin", a.v, st.mode = DEG)

cos(st, x) ==
    LET a == ToFloat(st, x) IN IF ~a.ok THEN a ELSE TrigValue(st, "cos", a.v, st.mode = DEG)

tan(st, x) ==
    LET a == ToFloat(st, x)
    IN IF ~a.ok THEN a
       ELSE IF ~(a.v.t = "float" /\ a.v.x) THEN Raise(st, "Unmodelled", "angle")
       ELSE IF st.mode = DEG
            THEN \* abs((angle % 180) - 90) < 1e-12, on an exact angle
                 IF a.v.n - FloorDiv(a.v.n, 180 * a.v.d) * 180 * a.v.d = 90 * a.v.d
                 THEN DomainError(st)
                 ELSE TrigValue(st, "tan", a.v, TRUE)
            ELSE \* no angle of TrigValue is within 1e-12 of pi/2 + k*pi
                 TrigValue(st, "tan", a.v, FALSE)

ln(st, x) ==
    LET a == ToFloat(st, x)
    IN IF ~a.ok THEN a
       ELSE IF SignOf(a.v) <= 0 THEN DomainError(st)
       ELSE IF a.v.t = "floatsym"
            THEN IF a.v.sym = "e" THEN Ok(st, FloatV(1, 1, TRUE))
                 ELSE Raise(st, "Unmodelled", "logarithm")
       ELSE IF a.v.n = 1 /\ a.v.d = 1 /\ a.v.x THEN Ok(st, FloatV(0, 1, TRUE))
       ELSE Raise(st, "Unmodelled", "logarithm")

\* math.log(x, base) = log(x) / log(base): within rounding error of k when x = base^k
LogOf(st, x, base) ==
    IF x.t = "float" /\ base.t = "float" /\ x.x /\ base.x /\ x.d = 1 /\ base.d = 1
       /\ IntLog(x.n, base.n) >= 0
    THEN LET k == IntLog(x.n, base.n) IN Ok(st, FloatV(k, 1, k = 0))
    ELSE Raise(st, "Unmodelled", "logarithm")

log10(st, x) ==
    LET a == ToFloat(st, x)
    IN IF ~a.ok THEN a
       ELSE IF SignOf(a.v) <= 0 THEN DomainError(st)
       ELSE LogOf(st, a.v, FloatV(10, 1, TRUE))

log(st, x, base) ==
    LET a == ToFloat(st, x)
    IN IF ~a.ok THEN a
       ELSE LET b == ToFloat(st, base)
            IN IF ~b.ok THEN b
               ELSE IF b.v.t = "float" /\ b.v.n = 1 /\ b.v.d = 1 /\ ~b.v.x
                    THEN Raise(st, "Unmodelled", "base == 1 on an inexact float")
               ELSE IF SignOf(a.v) <= 0 \/ SignOf(b.v) <= 0
                       \/ (b.v.t = "float" /\ b.v.n = 1 /\ b.v.d = 1)
                    THEN DomainError(st)
               ELSE LogOf(st, a.v, b.v)

sqrt(st, x) ==
    LET a == ToFloat(st, x)
    IN IF ~a.ok THEN a
       ELSE IF SignOf(a.v) < 0 THEN Raise(st, "ValueError", "Complex Result")
       ELSE IF a.v.t = "float" /\ IntRoot(a.v.n, 2) >= 0 /\ IntRoot(a.v.d, 2) >= 0
            THEN MkFloat(st, IntRoot(a.v.n, 2), IntRoot(a.v.d, 2), a.v.x)
       ELSE Raise(st, "Unmodelled", "irrational square root")

\* x ** (1 / n), with the expression language's own operators
NthRoot(st, x, n) ==
    Only({IF ~inv.ok THEN inv ELSE BinOp(st, "**", x, inv.v) :
          inv \in {BinOp(st, "/", IntV(1), IntV(n))}})

\* -((-x) ** (1 / n))
NegatedRoot(st, x, n) ==
    Only({IF ~neg.ok THEN neg
          ELSE Only({IF r.ok THEN UnOp(st, "-", r.v) ELSE r : r \in {NthRoot(st, neg.v, n)}}) :
          neg \in {UnOp(st, "-", x)}})

root(st, x0, n0) ==
    Only({IF ~a.ok THEN a
          ELSE IF ~m.ok THEN m
          ELSE IF m.v.t = "int10"
               THEN Raise(st, "Unmodelled", "a root index beyond the exact range")
          ELSE IF m.v.v <= 0 THEN Raise(st, "ValueError", "Invalid Root")
          ELSE IF SignOf(a.v) < 0
               THEN IF m.v.v % 2 = 0 THEN Raise(st, "ValueError", "Complex Result")
                    ELSE NegatedRoot(st, a.v, m.v.v)
               ELSE NthRoot(st, a.v, m.v.v) :
          a \in {ToFloat(st, x0)}, m \in {ToInt(st, n0)}})

fact(st, n0) ==
    LET a == ToFloat(st, n0)
    IN IF ~a.ok THEN a
       ELSE IF IsInteger(a.v) = "unknown" THEN Raise(st, "Unmodelled", "is_integer of an inexact float")
       ELSE IF IsInteger(a.v) = "no" THEN Raise(st, "ValueError", "Factorial needs integer")
       ELSE LET n == a.v.n
            IN IF n < 0 THEN DomainError(st)
               ELSE IF n > 12 THEN Raise(st, "Unmodelled", "a factorial beyond the exact range")
               ELSE Ok(st, IntV(Factorial(n)))

PermCount(n, r) == Factorial(n) \div Factorial(n - r)
CombCount(n, r) == Factorial(n) \div (Factorial(r) * Factorial(n - r))

\* a variant of the checks below that tests the signs before the integrality
CountingDomainFirst(st, n0, r0, needs, perm) ==
    LET a == ToFloat(st, n0)
    IN IF ~a.ok THEN a
       ELSE LET b == ToFloat(st, r0)
            IN IF ~b.ok THEN b
               ELSE IF SignOf(a.v) < 0 \/ SignOf(b.v) < 0 THEN DomainError(st)
               ELSE IF "no" \in {IsInteger(a.v), IsInteger(b.v)}
                    THEN Raise(st, "ValueError", needs)
               ELSE IF "unknown" \in {IsInteger(a.v), IsInteger(b.v)}
                    THEN Raise(st, "Unmodelled", "is_integer of an inexact float")
               ELSE IF b.v.n > a.v.n THEN DomainError(st)
               ELSE IF a.v.n > 12 THEN Raise(st, "Unmodelled", "a factorial beyond the exact range")
               ELSE Ok(st, IntV(IF perm THEN PermCount(a.v.n, b.v.n)
                                        ELSE CombCount(a.v.n, b.v.n)))

\* the checks _npr and _ncr share, then the count
Counting(st, n0, r0, needs, perm) ==
    LET a == ToFloat(st, n0)
    IN IF ~a.ok THEN a
       ELSE LET b == ToFloat(st, r0)
            IN IF ~b.ok THEN b
               ELSE IF "no" \in {IsInteger(a.v), IsInteger(b.v)}
                    THEN Raise(st, "ValueError", needs)
               ELSE IF "unknown" \in {IsInteger(a.v), IsInteger(b.v)}
                    THEN Raise(st, "Unmodelled", "is_integer of an inexact float")
               ELSE LET n == a.v.n
                        r == b.v.n
                    IN IF n < 0 \/ r < 0 \/ r > n THEN DomainError(st)
                       ELSE IF n > 12 THEN Raise(st, "Unmodelled", "a factorial beyond the exact range")
                       ELSE Ok(st, IntV(IF perm THEN PermCount(n, r) ELSE CombCount(n, r)))

npr(st, n0, r0) == Counting(st, n0, r0, "nPr needs integers", TRUE)

ncr(st, n0, r0) == Counting(st, n0, r0, "nCr needs integers", FALSE)

(***************************************************************************)
(* The host functions safe_env hands to eval(): abs, round, pow, math.exp, *)
(* and, reached through them, the builtins module's print.                 *)
(***************************************************************************)
builtin_abs(st, x) ==
    IF IsNum(x)
    THEN Ok(st, IF x.t = "float" THEN FloatV(Abs(x.n), x.d, x.x) ELSE IntV(Abs(NumOf(x))))
    ELSE IF x.t \in {"floatsym", "int10"} THEN Raise(st, "Unmodelled", "abs of a symbolic or big operand")
    ELSE Raise(st, "TypeError", "bad operand type for abs()")

\* round(x): to the nearest int, ties to even
builtin_round(st, x) ==
    IF IsExact(x) THEN Ok(st, IntV(NumOf(x)))
    ELSE IF x.t = "float"
         THEN LET f == FloorDiv(x.n, x.d)
                  twice == 2 * (x.n - f * x.d)
              IN IF twice = x.d /\ ~x.x THEN Raise(st, "Unmodelled", "an inexact tie")
                 ELSE IF twice > x.d \/ (twice = x.d /\ f % 2 = 1) THEN Ok(st, IntV(f + 1))
                 ELSE Ok(st, IntV(f))
    ELSE IF x.t \in {"floatsym", "int10"} THEN Raise(st, "Unmodelled", "round of a symbolic or big operand")
    ELSE Raise(st, "TypeError", "type doesn't define __round__ method")

math_exp(st, x) ==
    IF IsNum(x)
    THEN IF x.t = "float" /\ ~x.x THEN Raise(st, "Unmodelled", "exponential")
         ELSE IF NumOf(x) >= 710 * DenOf(x) THEN Raise(st, "OverflowError", "math range error")
         ELSE IF NumOf(x) = 0 THEN Ok(st, FloatV(1, 1, TRUE))
         ELSE IF NumOf(x) = 1 /\ DenOf(x) = 1 THEN Ok(st, SymV("e"))
         ELSE IF NumOf(x) = 2 /\ DenOf(x) = 1 THEN Ok(st, SymV("exp(2)"))
         ELSE Raise(st, "Unmodelled", "exponential")
    ELSE IF x.t \in {"floatsym", "int10"} THEN Raise(st, "Unmodelled", "exponential")
    ELSE Raise(st, "TypeError", "must be real number")

CallBuiltin(st, name, args) ==
    LET n == Len(args)
    IN CASE name = "abs" -> IF n = 1 THEN builtin_abs(st, args[1]) ELSE WrongArity(st)
         [] name = "round" ->
              IF n = 1 THEN builtin_round(st, args[1])
              ELSE IF n = 2 THEN Raise(st, "Unmodelled", "round to digits")
              ELSE WrongArity(st)
         [] name = "pow" ->
              IF n = 2 THEN BinOp(st, "**", args[1], args[2])
              ELSE IF n = 3 THEN Raise(st, "Unmodelled", "modular pow")
              ELSE WrongArity(st)
         [] name = "exp" -> IF n = 1 THEN math_exp(st, args[1]) ELSE WrongArity(st)
         \* print(...) writes to the host's standard output
         [] name = "print" -> Ok([st EXCEPT !.host = @ + 1], NoneV)

(***************************************************************************)
(* The methods of the CalculatorLogic instance.                            *)
(***************************************************************************)
\* a variant of set_angle_mode that upper-cases its argument but does not strip it
set_angle_mode_unstripped(st, mode0) ==
    LET mode == Upper(mode0)
    IN IF mode \notin {DEG, RAD}
       THEN Raise(st, "ValueError", "Angle mode must be 'DEG' or 'RAD'")
       ELSE Ok([st EXCEPT !.mode = mode], NoneV)

\* set_angle_mode on a str
set_angle_mode(st, mode0) ==
    LET mode == Strip(Upper(mode0))
    IN IF mode \notin {DEG, RAD}
       THEN Raise(st, "ValueError", "Angle mode must be 'DEG' or 'RAD'")
       ELSE Ok([st EXCEPT !.mode = mode], NoneV)

\* clear_history: self.history.clear()
clear_history(st) == Ok([st EXCEPT !.heap[st.histId] = <<>>], NoneV)

\* __init__: angle_mode is stored as given, self.history is a new list
init(st, mode) ==
    Ok([st EXCEPT !.mode = mode,
                  !.heap = Append(st.heap, <<>>),
                  !.histId = Len(st.heap) + 1], NoneV)

CallMethod(st, name, args) ==
    LET n == Len(args)
    IN CASE name = "_sin" -> IF n = 1 THEN sin(st, args[1]) ELSE WrongArity(st)
         [] name = "_cos" -> IF n = 1 THEN cos(st, args[1]) ELSE WrongArity(st)
         [] name = "_tan" -> IF n = 1 THEN tan(st, args[1]) ELSE WrongArity(st)
         [] name = "_ln" -> IF n = 1 THEN ln(st, args[1]) ELSE WrongArity(st)
         [] name = "_log10" -> IF n = 1 THEN log10(st, args[1]) ELSE WrongArity(st)
         [] name = "_log" ->
              IF n = 1 THEN log(st, args[1], IntV(10))
              ELSE IF n = 2 THEN log(st, args[1], args[2])
              ELSE WrongArity(st)
         [] name = "_sqrt" -> IF n = 1 THEN sqrt(st, args[1]) ELSE WrongArity(st)
         [] name = "_root" ->
              IF n = 1 THEN root(st, args[1], IntV(2))
              ELSE IF n = 2 THEN root(st, args[1], args[2])
              ELSE WrongArity(st)
         [] name = "_fact" -> IF n = 1 THEN fact(st, args[1]) ELSE WrongArity(st)
         [] name = "_npr" -> IF n = 2 THEN npr(st, args[1], args[2]) ELSE WrongArity(st)
         [] name = "_ncr" -> IF n = 2 THEN ncr(st, args[1], args[2]) ELSE WrongArity(st)
         [] name = "set_angle_mode" ->
              IF n # 1 THEN WrongArity(st)
              ELSE IF args[1].t = "str" THEN set_angle_mode(st, args[1].s)
              ELSE Raise(st, "AttributeError", "object has no attribute 'upper'")
         [] name = "clear_history" -> IF n = 0 THEN clear_history(st) ELSE WrongArity(st)
         [] name = "__init__" ->
              IF n = 0 THEN init(st, DEG)
              ELSE IF n > 1 THEN WrongArity(st)
              ELSE IF args[1].t = "str" THEN init(st, args[1].s)
              ELSE Raise(st, "Unmodelled", "an angle mode that is no str")

(***************************************************************************)
(* Attribute lookup and calls, on the part of Python's object model the    *)
(* inputs of the model reach: a bound method's __self__ and __name__, the  *)
(* instance's fields and methods, a list's clear, and the builtins module  *)
(* behind abs, round and pow.                                              *)
(***************************************************************************)
NoAttribute(st) == Raise(st, "AttributeError", "object has no attribute")

GetAttr(st, v, name) ==
    CASE v.t = "method" /\ name = "__self__" -> Ok(st, InstanceV)
      [] v.t = "method" /\ name = "__name__" -> Ok(st, StrV(v.name))
      [] v.t = "builtin" /\ name = "__self__" /\ v.name \in {"abs", "round", "pow", "print"} ->
           Ok(st, ModuleV("builtins"))
      [] v.t = "builtin" /\ name = "__name__" -> Ok(st, StrV(v.name))
      [] v.t = "module" /\ name = "__name__" -> Ok(st, StrV(v.name))
      [] v.t = "module" /\ v.name = "builtins" /\ name \in {"abs", "round", "pow", "print"} ->
           Ok(st, BuiltinV(name))
      \* site's Quitter object, which the interpreter adds to builtins
      [] v.t = "module" /\ v.name = "builtins" /\ name = "exit" -> Ok(st, QuitterV)
      [] v.t = "instance" /\ name = "history" -> Ok(st, ListV(st.histId))
      [] v.t = "instance" /\ name = "angle_mode" -> Ok(st, StrV(st.mode))
      [] v.t = "instance" /\ name \in {"__init__", "set_angle_mode", "clear_history"} ->
           Ok(st, MethodV(name))
      [] v.t = "list" /\ name = "clear" -> Ok(st, ListMethodV(v.id, name))
      [] v.t = "listmethod" /\ name = "__self__" -> Ok(st, ListV(v.id))
      [] v.t \in {"int", "float", "floatsym", "bool", "none", "instance", "tuple"}
           /\ name = "__self__" -> NoAttribute(st)
      [] OTHER -> Raise(st, "Unmodelled", "attribute")

Call(st, f, args) ==
    CASE f.t = "method" -> CallMethod(st, f.name, args)
      [] f.t = "builtin" -> CallBuiltin(st, f.name, args)
      \* exit(...) raises SystemExit
      [] f.t = "quitter" -> Raise(st, "SystemExit", "")
      [] f.t = "listmethod" ->
           \* list.clear()
           IF Len(args) = 0 THEN Ok([st EXCEPT !.heap[f.id] = <<>>], NoneV) ELSE WrongArity(st)
      [] OTHER -> Raise(st, "TypeError", "object is not callable")

(***************************************************************************)
(* safe_env, and eval(expr, safe_env, {}) on a parsed expression.          *)
(***************************************************************************)
SafeNames ==
    {"__builtins__", "pi", "e", "abs", "round", "pow", "sin", "cos", "tan", "ln", "log",
     "log10", "sqrt", "root", "fact", "nPr", "nCr", "exp"}

safe_env(id) ==
    CASE id = "__builtins__" -> NoneV
      [] id \in {"pi", "e"} -> SymV(id)
      [] id \in {"abs", "round", "pow", "exp"} -> BuiltinV(id)
      [] id = "nPr" -> MethodV("_npr")
      [] id = "nCr" -> MethodV("_ncr")
      [] id \in {"sin", "cos", "tan", "ln", "log", "log10", "sqrt", "root", "fact"} ->
           MethodV("_" \o id)

RECURSIVE StrToNat(_)
StrToNat(s) ==
    IF Len(s) = 0 THEN 0
    ELSE StrToNat(SubSeq(s, 1, Len(s) - 1)) * 10
         + (CHOOSE k \in 0..9 : CharAt(Digits, k + 1) = CharAt(s, Len(s)))

\* the value of a number literal
Literal(s) ==
    IF ~HasDot(s) THEN IntV(StrToNat(s))
    ELSE LET dot == CHOOSE i \in 1..Len(s) : CharAt(s, i) = "."
             frac == SubSeq(s, dot + 1, Len(s))
         IN FloatV(StrToNat(SubSeq(s, 1, dot - 1)) * IntPow(10, Len(frac)) + StrToNat(frac),
                   IntPow(10, Len(frac)), TRUE)

RECURSIVE Eval(_, _)
RECURSIVE EvalItems(_, _, _)

\* the items left to right; the first exception ends the evaluation
EvalItems(st, items, acc) ==
    IF Len(items) = 0 THEN Ok(st, TupleV(acc))
    ELSE LET r == Eval(st, items[1])
         IN IF ~r.ok THEN r ELSE EvalItems(r.st, Tail(items), Append(acc, r.v))

Eval(st, node) ==
    CASE node.k = "num" -> Ok(st, Literal(node.s))
      [] node.k = "name" ->
           IF node.id \in SafeNames THEN Ok(st, safe_env(node.id))
           ELSE Raise(st, "NameError", "name is not defined")
      [] node.k = "const" ->
           Ok(st, IF node.id = "None" THEN NoneV ELSE BoolV(node.id = "True"))
      [] node.k = "not" ->
           LET r == Eval(st, node.e)
           IN IF ~r.ok THEN r ELSE Ok(r.st, BoolV(~Truth(r.st, r.v)))
      [] node.k = "un" ->
           LET r == Eval(st, node.e) IN IF ~r.ok THEN r ELSE UnOp(r.st, node.op, r.v)
      [] node.k = "bin" ->
           LET a == Eval(st, node.l)
           IN IF ~a.ok THEN a
              ELSE LET b == Eval(a.st, node.r)
                   IN IF ~b.ok THEN b ELSE BinOp(b.st, node.op, a.v, b.v)
      [] node.k = "tuple" -> EvalItems(st, node.items, <<>>)
      [] node.k = "attr" ->
           LET r == Eval(st, node.e) IN IF ~r.ok THEN r ELSE GetAttr(r.st, r.v, node.name)
      [] node.k = "call" ->
           LET f == Eval(st, node.f)
           IN IF ~f.ok THEN f
              ELSE LET a == EvalItems(f.st, node.args, <<>>)
                   IN IF ~a.ok THEN a ELSE Call(a.st, f.v, a.v.items)

(***************************************************************************)
(* evaluate                                                                *)
(***************************************************************************)
InvalidCharacters == "Error: Invalid Characters"
DivisionByZero == "Error: Division by Zero"
InvalidExpression == "Error: Invalid Expression"

\* the classes the last handler, "except Exception", catches
OtherExceptions == {"NameError", "AttributeError", "OverflowError"}

Returned(st, ret, path) == [st |-> st, ret |-> ret, raised |-> "none", path |-> path]

\* the except clauses, in their order; SystemExit is no Exception and goes to the caller
Handlers(st, exc, msg) ==
    CASE exc = "ZeroDivisionError" -> Returned(st, DivisionByZero, exc)
      [] exc = "ValueError" -> Returned(st, msg, exc)
      [] exc = "SyntaxError" -> Returned(st, InvalidExpression, exc)
      [] exc = "TypeError" -> Returned(st, InvalidExpression, exc)
      [] exc \in OtherExceptions -> Returned(st, InvalidExpression, "Exception")
      [] exc = "SystemExit" -> [st |-> st, ret |-> "", raised |-> exc, path |-> "propagated"]

\* eval(expr, safe_env, {}): compile, then evaluate
eval(st, expr) ==
    Only({IF tree.ok THEN Eval(st, tree.node) ELSE Raise(st, tree.err, "invalid syntax") :
          tree \in {Parse(expr)}})

\* self.history.append((expression, result))
HistoryAppend(st, expression, result) ==
    [st EXCEPT !.heap[st.histId] = Append(@, [expr |-> expression, result |-> result])]

\* lines 232-236 and the except clauses: the append, then the formatting
Finish(st, expression, result) ==
    Only({Only({IF f.ok THEN Returned(st1, f.s, "ok") ELSE Handlers(st1, f.exc, f.msg) :
                f \in {format_result(st1.heap, result)}}) :
          st1 \in {HistoryAppend(st, expression, result)}})

evaluate(st, expression) ==
    Only({IF expr = "" THEN Returned(st, "", "empty")
          ELSE IF expr = INVALID_CHARS THEN Returned(st, InvalidCharacters, "invalid_chars")
          ELSE Only({IF ~r.ok THEN Handlers(r.st, r.exc, r.msg)
                     ELSE Finish(r.st, expression, r.v) :
                     r \in {eval(st, expr)}}) :
          expr \in {preprocess(expression)}})

(***************************************************************************)
(* The state machine: one CalculatorLogic instance and the caller of its   *)
(* public methods.                                                         *)
(*   angle_mode, heap, histId   the instance: self.angle_mode, the list    *)
(*                              objects, and which of them self.history is *)
(*   snap                       the list get_history() returned last, as   *)
(*                              the caller holds it                        *)
(*   snapSeen                   what that list showed when the caller last *)
(*                              looked at it                               *)
(*   okLog                      the evaluate calls that returned a         *)
(*                              formatted result since the last            *)
(*                              clear_history(), with what they returned   *)
(*   last                       the last call: its argument, what it       *)
(*                              returned or raised, and the state before   *)
(***************************************************************************)
History == heap[histId]

\* the instance as the evaluation sees it; host counts the host-level calls made
Self == [mode |-> angle_mode, heap |-> heap, histId |-> histId, host |-> 0]

\* the list objects the entries of a list refer to
Refs(items) == {items[i].result.id : i \in {j \in 1..Len(items) : items[j].result.t = "list"}}

RECURSIVE Reach(_, _, _)
Reach(hp, ids, n) ==
    IF n = 0 THEN ids ELSE Reach(hp, ids \cup UNION {Refs(hp[i]) : i \in ids}, n - 1)

\* a list object nothing refers to any more is freed: its content is gone
Collect(hp, roots) ==
    [i \in 1..Len(hp) |-> IF i \in Reach(hp, roots, Len(hp)) THEN hp[i] ELSE <<>>]

\* a list's entries with the list objects they hold shown by their content
Seen(hp, items) ==
    [i \in 1..Len(items) |->
        [expr |-> items[i].expr,
         result |-> IF items[i].result.t = "list"
                    THEN [t |-> "list", items |-> hp[items[i].result.id]]
                    ELSE items[i].result]]

NoSnapshot == [held |-> FALSE, items |-> <<>>]

\* the angle modes a caller constructs the instance with: __init__ stores any
CtorModes == {DEG, RAD, "GRAD"}

Called(op, arg, ret, raised, path, host) ==
    [op |-> op, arg |-> arg, ret |-> ret, raised |-> raised, path |-> path, host |-> host,
     prev |-> IF op = "get_history" THEN last.op ELSE "",
     mode0 |-> angle_mode, hist0 |-> History, histId0 |-> histId]

\* calc = CalculatorLogic(angle_mode=...)
Init ==
    /\ angle_mode \in CtorModes
    /\ heap = << <<>> >>
    /\ histId = 1
    /\ snap = NoSnapshot
    /\ snapSeen = <<>>
    /\ okLog = <<>>
    /\ last = [op |-> "init", arg |-> angle_mode, ret |-> "", raised |-> "none",
               path |-> "", host |-> 0, prev |-> "", mode0 |-> angle_mode,
               hist0 |-> <<>>, histId0 |-> 1]

\* calc = CalculatorLogic(angle_mode="DEG"), as gui.py constructs it
InitDefault == Init /\ angle_mode = DEG

\* calc.evaluate(expression)
Evaluate(expression) ==
    \E r \in {evaluate(Self, expression)} :
       /\ Len(r.st.heap) <= MaxLists
       /\ \A i \in 1..Len(r.st.heap) : Len(r.st.heap[i]) <= MaxHistory
       /\ r.path = "ok" => Len(okLog) < MaxHistory
       /\ angle_mode' = r.st.mode
       /\ heap' = Collect(r.st.heap, {r.st.histId} \cup Refs(snap.items))
       /\ histId' = r.st.histId
       /\ okLog' = IF r.path = "ok"
                   THEN Append(okLog, [expr |-> expression, ret |-> r.ret])
                   ELSE okLog
       /\ last' = Called("evaluate", expression, r.ret, r.raised, r.path, r.st.host)
       /\ UNCHANGED <<snap, snapSeen>>

\* calc.set_angle_mode(mode)
SetAngleMode(mode) ==
    LET r == set_angle_mode(Self, mode)
    IN /\ angle_mode' = r.st.mode
       /\ heap' = r.st.heap
       /\ histId' = r.st.histId
       /\ last' = Called("set_angle_mode", mode, IF r.ok THEN "" ELSE r.msg,
                         IF r.ok THEN "none" ELSE r.exc, "", 0)
       /\ UNCHANGED <<snap, snapSeen, okLog>>

\* calc.clear_history()
ClearHistory ==
    LET r == clear_history(Self)
    IN /\ heap' = Collect(r.st.heap, {r.st.histId} \cup Refs(snap.items))
       /\ okLog' = <<>>
       /\ last' = Called("clear_history", "", "", "none", "", 0)
       /\ UNCHANGED <<angle_mode, histId, snap, snapSeen>>

\* get_history: list(self.history), a new list of the same entries
get_history(st) == st.heap[st.histId]

\* snapshot = calc.get_history()
GetHistory ==
    /\ snap' = [held |-> TRUE, items |-> get_history(Self)]
    /\ snapSeen' = Seen(heap, get_history(Self))
    /\ last' = Called("get_history", "", "", "none", "", 0)
    /\ UNCHANGED <<angle_mode, heap, histId, okLog>>

\* the caller empties the list it was given: snapshot.clear()
CallerClearsSnapshot ==
    /\ snap.held
    /\ snap.items # <<>>
    /\ snap' = [snap EXCEPT !.items = <<>>]
    /\ snapSeen' = <<>>
    /\ heap' = Collect(heap, {histId})
    /\ last' = Called("caller", "snapshot.clear()", "", "none", "", 0)
    /\ UNCHANGED <<angle_mode, histId, okLog>>

\* the caller empties a list it finds in an entry: snapshot[i][1].clear()
CallerClearsResult(i) ==
    /\ snap.held
    /\ i \in 1..Len(snap.items)
    /\ snap.items[i].result.t = "list"
    /\ heap[snap.items[i].result.id] # <<>>
    /\ heap' = Collect([heap EXCEPT ![snap.items[i].result.id] = <<>>],
                       {histId} \cup Refs(snap.items))
    /\ snapSeen' = Seen(heap', snap.items)
    /\ last' = Called("caller", "snapshot[i][1].clear()", "", "none", "", 0)
    /\ UNCHANGED <<angle_mode, histId, snap, okLog>>

(***************************************************************************)
(* Spec: the instance under every interleaving of evaluate,                *)
(* set_angle_mode and clear_history, on texts a caller can type.           *)
(***************************************************************************)
Inputs ==
    {"2+3", "sin(30)", "1/0", "", "2 $ 3", "10**4300",
     "abs.__self__.print(1)", "abs.__self__.exit()",
     "sin.__self__.__init__(sin.__name__)", "sin.__self__.history.clear()"}

ModeTexts == {"RAD", " deg ", "grad"}

Next ==
    \/ \E expression \in Inputs : Evaluate(expression)
    \/ \E mode \in ModeTexts : SetAngleMode(mode)
    \/ ClearHistory

Spec == Init /\ [][Next]_vars

(***************************************************************************)
(* SpecMode: set_angle_mode on every kind of argument, between             *)
(* evaluations that fill the history.                                      *)
(***************************************************************************)
\* set_angle_mode's arguments, each with the mode it names once trimmed and upper-cased
ModeCases ==
    {[text |-> "DEG", means |-> DEG], [text |-> "RAD", means |-> RAD],
     [text |-> "rad", means |-> RAD], [text |-> " deg ", means |-> DEG],
     [text |-> "\tRad\n", means |-> RAD], [text |-> "grad", means |-> "none"],
     [text |-> "", means |-> "none"], [text |-> "D EG", means |-> "none"],
     [text |-> "DEGREES", means |-> "none"]}

ModeInputs == {"2+3", "sin(30)", "1/0"}

NextMode ==
    \/ \E c \in ModeCases : SetAngleMode(c.text)
    \/ \E expression \in ModeInputs : Evaluate(expression)
    \/ ClearHistory

SpecMode == Init /\ [][NextMode]_vars

(***************************************************************************)
(* SpecSnapshot: a caller that keeps what get_history() returned and       *)
(* changes it, while the instance goes on being used.                      *)
(***************************************************************************)
SnapshotInputs == {"2+3", "1/0", "sin.__self__.history"}

NextSnapshot ==
    \/ \E expression \in SnapshotInputs : Evaluate(expression)
    \/ ClearHistory
    \/ GetHistory
    \/ CallerClearsSnapshot
    \/ \E i \in 1..MaxHistory : CallerClearsResult(i)

SpecSnapshot == InitDefault /\ [][NextSnapshot]_vars

(***************************************************************************)
(* SpecGrammar: one calculator, as gui.py constructs it, on texts inside   *)
(* and outside the expression grammar and the allowed character set.       *)
(***************************************************************************)
GrammarInputs ==
    {"2+3*5", "2 × 3", "2^3", "1/0", "sqrt(-1)", "sin()",
     "sin", "1,2", "2//3", "not 1", "None",
     "foo", "foo(1)", "pi(1)", "2+", "(2", "2 3",
     "", "   ", "2 $ 3", "a=1", "[1]", "__INVALID_CHARS__"}

NextGrammar ==
    \/ \E expression \in GrammarInputs : Evaluate(expression)
    \/ ClearHistory

SpecGrammar == InitDefault /\ [][NextGrammar]_vars

\* the names of safe_env a caller is meant to use
WhitelistFunctions ==
    {"abs", "round", "pow", "sin", "cos", "tan", "ln", "log", "log10", "sqrt", "root",
     "fact", "nPr", "nCr", "exp"}

WhitelistConstants == {"pi", "e"}

\* the expression grammar: literals, + - * / % **, unary sign, parentheses, the
\* constants, and calls name(arg, ...) of the functions
RECURSIVE InGrammar(_)
InGrammar(node) ==
    CASE node.k = "num" -> TRUE
      [] node.k = "name" -> node.id \in WhitelistConstants
      [] node.k = "un" -> InGrammar(node.e)
      [] node.k = "bin" ->
           node.op \in {"+", "-", "*", "/", "%", "**"} /\ InGrammar(node.l) /\ InGrammar(node.r)
      [] node.k = "call" ->
           /\ node.f.k = "name"
           /\ node.f.id \in WhitelistFunctions
           /\ \A i \in 1..Len(node.args) : InGrammar(node.args[i])
      [] OTHER -> FALSE

\* a text of allowed characters that is an expression of the grammar
GrammarAccepts(expression) ==
    \E tree \in {Parse(Normalize(expression))} : tree.ok /\ InGrammar(tree.node)

(***************************************************************************)
(* SpecCounting: fact, nPr and nCr on integral, non-integral and negative  *)
(* arguments.                                                              *)
(***************************************************************************)
\* an argument text with the number num/den it denotes
Arg(text, num, den) == [text |-> text, num |-> num, den |-> den]

FactArgs ==
    {Arg("5", 5, 1), Arg("-1", -1, 1), Arg("-3.0", -3, 1), Arg("2.5", 5, 2),
     Arg("-2.5", -5, 2), Arg("5/2", 5, 2), Arg("0.1", 1, 10)}

CountArgsN == {Arg("5", 5, 1), Arg("-1", -1, 1), Arg("2.5", 5, 2)}

CountArgsR == {Arg("2", 2, 1), Arg("7.0", 7, 1), Arg("-1", -1, 1), Arg("2.5", 5, 2)}

CountingCases ==
    {[text |-> "fact(" \o a.text \o ")", fn |-> "fact", args |-> <<a>>] : a \in FactArgs}
    \cup {[text |-> f \o "(" \o a.text \o "," \o b.text \o ")", fn |-> f, args |-> <<a, b>>] :
          f \in {"nPr", "nCr"}, a \in CountArgsN, b \in CountArgsR}

NextCounting ==
    \/ \E c \in CountingCases : Evaluate(c.text)
    \/ ClearHistory

SpecCounting == InitDefault /\ [][NextCounting]_vars

NonIntegral(a) == a.num % a.den # 0

\* every argument integral, and one negative or r > n
OutOfDomain(c) ==
    /\ \A i \in 1..Len(c.args) : ~NonIntegral(c.args[i])
    /\ \/ \E i \in 1..Len(c.args) : c.args[i].num < 0
       \/ Len(c.args) = 2 /\ c.args[2].num * c.args[1].den > c.args[1].num * c.args[2].den

\* the message the function raises for a non-integral argument
NeedsInteger(fn) ==
    CASE fn = "fact" -> "Factorial needs integer"
      [] fn = "nPr" -> "nPr needs integers"
      [] fn = "nCr" -> "nCr needs integers"

(***************************************************************************)
(* SpecRoot: root(x, n) on positive and negative x and on positive, zero,  *)
(* negative and non-integral n.                                            *)
(***************************************************************************)
RootArgsX == {Arg("64", 64, 1), Arg("-64", -64, 1)}

RootArgsN ==
    {Arg("2", 2, 1), Arg("3", 3, 1), Arg("1", 1, 1), Arg("0", 0, 1), Arg("-1", -1, 1),
     Arg("0.5", 1, 2), Arg("2.5", 5, 2), Arg("-0.5", -1, 2)}

\* mirror is the same root of |x|
RootCases ==
    {[text |-> "root(" \o x.text \o "," \o n.text \o ")", x |-> x, n |-> n,
      mirror |-> "root(" \o IntToStr(Abs(x.num)) \o "," \o n.text \o ")"] :
     x \in RootArgsX, n \in RootArgsN}

NextRoot ==
    \/ \E c \in RootCases : Evaluate(c.text)
    \/ ClearHistory

SpecRoot == InitDefault /\ [][NextRoot]_vars

(***************************************************************************)
(* The properties.                                                         *)
(***************************************************************************)

\* C1: with no clear_history in between, the history holds exactly one entry per
\* evaluate call that returned a formatted result and none for a call that returned an
\* error string or "", in call order, each entry being the raw expression of its call
\* and the result whose formatting that call returned.
C1_HistoryIsTheSuccessfulCalls ==
    /\ Len(History) = Len(okLog)
    /\ \A i \in 1..Len(okLog) :
          /\ i <= Len(History)
          /\ History[i].expr = okLog[i].expr
          /\ format_result(heap, History[i].result) = FOk(okLog[i].ret)

\* C2: an evaluate call executes no host-level capability, hands out neither the
\* evaluator instance, its history nor the host's builtins, and changes the evaluator's
\* state by nothing but a single history append of its own expression.
C2_EvaluateIsConfined ==
    last.op = "evaluate" =>
       /\ last.host = 0
       /\ angle_mode = last.mode0
       /\ histId = last.histId0
       /\ \/ History = last.hist0
          \/ /\ Len(History) = Len(last.hist0) + 1
             /\ SubSeq(History, 1, Len(last.hist0)) = last.hist0
             /\ History[Len(History)].expr = last.arg
       /\ last.path = "ok" =>
             /\ History # <<>>
             /\ History[Len(History)].result.t
                   \notin {"instance", "module", "list", "listmethod", "quitter"}

\* C3: a text of allowed characters that is not an expression of the grammar (literals,
\* + - * / % **, unary sign, parentheses, whitelisted constants and calls of whitelisted
\* functions) returns the Invalid Expression string and appends nothing to history, and
\* every successful evaluation yields a numeric value.
C3_OnlyTheGrammarIsAccepted ==
    last.op = "evaluate" =>
       /\ (/\ FullMatch(Normalize(last.arg))
           /\ Normalize(last.arg) # ""
           /\ ~GrammarAccepts(last.arg))
          => (last.ret = InvalidExpression /\ History = last.hist0)
       /\ last.path = "ok" => (History # <<>> /\ IsNum(History[Len(History)].result))

\* C4: evaluate returns a display string and raises nothing to its caller.
C4_EvaluateRaisesNothing == last.op = "evaluate" => last.raised = "none"

\* C5: from construction onward the angle mode is DEG or RAD, and it changes only in a
\* set_angle_mode call.
C5_AngleModeIsDegOrRad ==
    /\ angle_mode \in {DEG, RAD}
    /\ last.op \notin {"init", "set_angle_mode"} => angle_mode = last.mode0

\* C6: set_angle_mode(mode) sets the angle mode to DEG or RAD when mode, trimmed and
\* with letter case ignored, is "DEG" or "RAD"; for every other value it fails with a
\* ValueError and leaves the angle mode and the history unchanged.
C6_SetAngleModeValidates ==
    last.op = "set_angle_mode" =>
       \A c \in ModeCases :
          c.text = last.arg =>
             IF c.means \in {DEG, RAD}
             THEN last.raised = "none" /\ angle_mode = c.means /\ History = last.hist0
             ELSE /\ last.raised = "ValueError"
                  /\ angle_mode = last.mode0
                  /\ History = last.hist0

\* C6 happens: a padded, mixed-case "Rad" switched a calculator with history from DEG
\* to RAD.
C6_Witness ==
    /\ last.op = "set_angle_mode"
    /\ last.arg = "\tRad\n"
    /\ last.mode0 = DEG
    /\ angle_mode = RAD
    /\ History # <<>>

\* C7: evaluate returns the Invalid Characters string if and only if the input, stripped
\* and with its glyphs replaced, holds a character outside the allowed set, and an input
\* that is empty after stripping returns "".
C7_InvalidCharactersIffDisallowed ==
    last.op = "evaluate" =>
       /\ (last.ret = InvalidCharacters) <=> ~FullMatch(Normalize(last.arg))
       /\ Normalize(last.arg) = "" => last.ret = ""

\* C8: what get_history() returned is a snapshot: no mutation the caller makes through
\* it changes the internal history, later evaluate and clear_history calls do not change
\* it, and get_history() right after clear_history() returns an empty list.
C8_HistoryIsASnapshot ==
    /\ last.op = "caller" => History = last.hist0
    /\ (snap.held /\ last.op \in {"evaluate", "clear_history"})
          => Seen(heap, snap.items) = snapSeen
    /\ (last.op = "get_history" /\ last.prev = "clear_history") => snap.items = <<>>

\* C9 as the specification states it: a non-integral argument to fact, nPr or nCr
\* returns the Invalid Expression string, an integral negative argument (or r > n)
\* returns Domain Error, and neither appends to history.
C9_NonIntegralIsInvalidExpression ==
    last.op = "evaluate" =>
       \A c \in CountingCases :
          c.text = last.arg =>
             /\ (\E i \in 1..Len(c.args) : NonIntegral(c.args[i]))
                   => (last.ret = InvalidExpression /\ History = last.hist0)
             /\ OutOfDomain(c) => (last.ret = "Domain Error" /\ History = last.hist0)

\* C9 as the code has it: a non-integral argument to fact, nPr or nCr returns the
\* function's own message ("Factorial needs integer", "nPr needs integers", "nCr needs
\* integers"), whatever the sign of the arguments; when every argument is integral, a
\* negative one (or r > n) returns Domain Error; neither appends to history.
C9_NonIntegralNeedsInteger ==
    last.op = "evaluate" =>
       \A c \in CountingCases :
          c.text = last.arg =>
             /\ (\E i \in 1..Len(c.args) : NonIntegral(c.args[i]))
                   => (last.ret = NeedsInteger(c.fn) /\ History = last.hist0)
             /\ OutOfDomain(c) => (last.ret = "Domain Error" /\ History = last.hist0)

\* C9 happens: nPr with a negative n and a non-integral r, on a calculator with history,
\* answered with the function's own message.
C9_Witness ==
    /\ last.op = "evaluate"
    /\ last.arg = "nPr(-1,2.5)"
    /\ last.ret = "nPr needs integers"
    /\ History # <<>>
    /\ History = last.hist0

\* C10: root(x, n) answers Invalid Root exactly when n <= 0; for n > 0 and x < 0 it
\* answers Complex Result when n is even and the negated nth root of |x| when n is odd.
C10_InvalidRootIffNotPositive ==
    last.op = "evaluate" =>
       \A c \in RootCases :
          c.text = last.arg =>
             /\ (last.ret = "Invalid Root") <=> (c.n.num <= 0)
             /\ (c.n.num > 0 /\ c.n.den = 1 /\ c.x.num < 0) =>
                   IF c.n.num % 2 = 0
                   THEN last.ret = "Complex Result"
                   ELSE last.ret = "-" \o evaluate(Self, c.mirror).ret

====
